---- MODULE Spec2Model ----
(***************************************************************************)
(* Model of ChatMessageFilter (src/chat_filter.py): the block-list, the    *)
(* filter configuration, the running counters and every public operation.  *)
(*                                                                         *)
(* A Python str is a sequence of one-character strings: "a_4" is           *)
(* <<"a", "_", "4">>.  None is the one-element sequence None below, which  *)
(* is no string any operation can build.                                   *)
(***************************************************************************)
EXTENDS Integers, Sequences, FiniteSets, TLC

VARIABLES
    curse_words,               \* self.curse_words: a set of strings
    filter_level,              \* self.filter_level
    replacement_char,          \* self.replacement_char: a string
    total_messages_processed,  \* self.total_messages_processed
    total_words_filtered,      \* self.total_words_filtered
    call,                      \* the call that just returned: [op, arg,
                               \*   preserve_length]; op is "idle" between calls
    result,                    \* what it did: [raised, value]
    old,                       \* the engine's fields when that call began
    filter_calls_ok,           \* history: filter_message calls that returned
                               \*   since construction or the last reset
    tokens_replaced,           \* history: tokens those calls replaced
    never_loaded,              \* history: construction failed to load and
                               \*   add_curse_word has inserted no word since
    requests                   \* the request layer: what each of its handlers
                               \*   is doing; <<>> where the engine is called
                               \*   directly

engine == <<curse_words, filter_level, replacement_char,
            total_messages_processed, total_words_filtered>>
history == <<filter_calls_ok, tokens_replaced, never_loaded>>
vars == <<engine, call, result, old, history, requests>>

(***************************************************************************)
(* The length limits of the engine and the bounds of the model.            *)
(***************************************************************************)
\* self.max_message_length: 1000 in the source, scaled down here so that the
\* messages below, at and above the cap are all enumerated
max_message_length == 3
\* self.min_message_length
min_message_length == 1
\* filter_message is called while fewer than MaxCount messages were counted.
MaxCount == 2
\* longest word handed to get_word_severity
MaxWordLen == 2
\* entries of a list given to batch_filter_messages
MaxBatch == 2

(***************************************************************************)
(* Values.                                                                 *)
(***************************************************************************)
None == <<"<None>">>

STRICT == "FilterLevel.STRICT"
MODERATE == "FilterLevel.MODERATE"
LENIENT == "FilterLevel.LENIENT"
FilterLevel == {STRICT, MODERATE, LENIENT}

\* FilterLevel.X.value
level_value(level) ==
    CASE level = STRICT -> "strict"
      [] level = MODERATE -> "moderate"
      [] level = LENIENT -> "lenient"

\* isinstance(level, FilterLevel)
is_filter_level(level) == level \in FilterLevel

(***************************************************************************)
(* str and re primitives, as far as the filter uses them.                  *)
(***************************************************************************)
ascii_lower ==
    <<"a", "b", "c", "d", "e", "f", "g", "h", "i", "j", "k", "l", "m",
      "n", "o", "p", "q", "r", "s", "t", "u", "v", "w", "x", "y", "z">>
ascii_upper ==
    <<"A", "B", "C", "D", "E", "F", "G", "H", "I", "J", "K", "L", "M",
      "N", "O", "P", "Q", "R", "S", "T", "U", "V", "W", "X", "Y", "Z">>
digits == {"0", "1", "2", "3", "4", "5", "6", "7", "8", "9"}

ascii_letters ==
    {ascii_lower[i] : i \in DOMAIN ascii_lower}
        \cup {ascii_upper[i] : i \in DOMAIN ascii_upper}

\* the lower-case letter of each upper-case one
lower_of ==
    [c \in {ascii_upper[i] : i \in DOMAIN ascii_upper} |->
        ascii_lower[CHOOSE i \in DOMAIN ascii_upper : ascii_upper[i] = c]]

\* one character of str.lower()
char_lower(c) == IF c \in DOMAIN lower_of THEN lower_of[c] ELSE c

\* str.lower()
str_lower(s) == [i \in 1..Len(s) |-> char_lower(s[i])]

\* str.isspace() of one character
is_space(c) == c \in {" ", "\t", "\n"}

\* str.strip(): drop leading and trailing whitespace
str_strip(s) ==
    LET keep == {i \in 1..Len(s) : ~is_space(s[i])}
    IN IF keep = {} THEN <<>>
       ELSE LET lo == CHOOSE i \in keep : \A j \in keep : i <= j
                hi == CHOOSE i \in keep : \A j \in keep : j <= i
            IN SubSeq(s, lo, hi)

\* str.replace(a, b) for one-character a and b
str_replace(s, a, b) == [i \in 1..Len(s) |-> IF s[i] = a THEN b ELSE s[i]]

\* char * n
str_repeat(char, n) ==
    [i \in 1..(Len(char) * n) |-> char[((i - 1) % Len(char)) + 1]]

\* the characters [a-zA-Z] matches
is_ascii_letter(c) == c \in ascii_letters

\* the characters \w matches
word_chars == ascii_letters \cup digits \cup {"_"}
is_word_char(c) == c \in word_chars

\* where the run of word characters that starts at i ends (one past it)
RECURSIVE word_end(_, _)
word_end(s, i) ==
    IF i <= Len(s) /\ is_word_char(s[i]) THEN word_end(s, i + 1) ELSE i

\* re.findall(r'\b\w+\b', s) from position i on
RECURSIVE findall_from(_, _)
findall_from(s, i) ==
    IF i > Len(s) THEN <<>>
    ELSE IF is_word_char(s[i])
         THEN <<SubSeq(s, i, word_end(s, i) - 1)>> \o findall_from(s, word_end(s, i))
         ELSE findall_from(s, i + 1)

\* re.findall(r'\b\w+\b', s)
findall_words(s) == findall_from(s, 1)

(***************************************************************************)
(* The block-list loader.  A document is [kind, items]: kind is "missing"  *)
(* (no such file), "invalid_json", "scalar" (valid JSON, neither list nor  *)
(* dict), "list" (items: its entries) or "dict" (items: its entries        *)
(* [key, is_list, list], in the file's order).                             *)
(***************************************************************************)
\* `if word`: None, "" and the other falsy entries are skipped
truthy(word) == word # None /\ word # <<>>

\* set(str(word).lower().strip() for word in words if word)
word_set(words) ==
    {str_strip(str_lower(words[i])) : i \in {j \in DOMAIN words : truthy(words[j])}}

preferred_keys ==
    << <<"w", "o", "r", "d", "s">>,
       <<"c", "u", "r", "s", "e">>,
       <<"c", "u", "r", "s", "e", "_", "w", "o", "r", "d", "s">>,
       <<"b", "a", "d", "_", "w", "o", "r", "d", "s">>,
       <<"p", "r", "o", "f", "a", "n", "i", "t", "y">> >>

\* the for/else over the preferred keys, from the k-th key on
RECURSIVE dict_words(_, _)
dict_words(items, k) ==
    IF k > Len(preferred_keys)
    THEN {str_strip(str_lower(items[i].key)) :
              i \in {j \in DOMAIN items : truthy(items[j].key)}}
    ELSE IF \E i \in DOMAIN items :
                items[i].key = preferred_keys[k] /\ items[i].is_list
         THEN LET i == CHOOSE j \in DOMAIN items : items[j].key = preferred_keys[k]
              IN word_set(items[i].list)
         ELSE dict_words(items, k + 1)

\* _load_curse_words: [raised, curse_words], the exception it ends with ("" for
\* none) and self.curse_words as it leaves it (it starts as set())
_load_curse_words(doc) ==
    CASE doc.kind = "missing" ->
             [raised |-> "FileNotFoundError", curse_words |-> {}]
      [] doc.kind = "invalid_json" ->
             [raised |-> "ValueError", curse_words |-> {}]
      [] doc.kind = "list" ->
             [raised |-> IF word_set(doc.items) = {} THEN "Exception" ELSE "",
              curse_words |-> word_set(doc.items)]
      [] doc.kind = "dict" ->
             [raised |-> IF dict_words(doc.items, 1) = {} THEN "Exception" ELSE "",
              curse_words |-> dict_words(doc.items, 1)]
      [] OTHER -> [raised |-> "Exception", curse_words |-> {}]

\* seeded fault: __init__ falls back to a built-in list, as _load_default_words
\* once did
init_curse_words_default_list(doc) ==
    IF _load_curse_words(doc).raised # "" THEN {<<"a">>}
    ELSE _load_curse_words(doc).curse_words

\* __init__: self.curse_words after the try/except around _load_curse_words
init_curse_words(doc) == _load_curse_words(doc).curse_words

(***************************************************************************)
(* Changing the block-list.                                                *)
(***************************************************************************)
\* seeded fault: a word already listed is reported as added
add_curse_word_always_true(word) ==
    IF word = None \/ word = <<>>
    THEN [raised |-> "ValueError", value |-> None, curse_words |-> curse_words]
    ELSE [raised |-> "", value |-> TRUE,
          curse_words |-> curse_words \cup {str_strip(str_lower(word))}]

\* add_curse_word: the exception it ends with ("" for none), what it returns
\* and the block-list as it leaves it
add_curse_word(word) ==
    IF word = None \/ word = <<>>
    THEN [raised |-> "ValueError", value |-> None, curse_words |-> curse_words]
    ELSE LET word_lower == str_strip(str_lower(word))
         IN IF word_lower \in curse_words
            THEN [raised |-> "", value |-> FALSE, curse_words |-> curse_words]
            ELSE [raised |-> "", value |-> TRUE,
                  curse_words |-> curse_words \cup {word_lower}]

\* remove_curse_word, likewise
remove_curse_word(word) ==
    IF word = None \/ word = <<>>
    THEN [raised |-> "", value |-> FALSE, curse_words |-> curse_words]
    ELSE LET word_lower == str_strip(str_lower(word))
         IN IF word_lower \in curse_words
            THEN [raised |-> "", value |-> TRUE,
                  curse_words |-> curse_words \ {word_lower}]
            ELSE [raised |-> "", value |-> FALSE, curse_words |-> curse_words]

(***************************************************************************)
(* Matching.                                                               *)
(***************************************************************************)
\* re.sub(r'[^a-zA-Z]', '', word.lower())
_normalize_word(word) == SelectSeq(str_lower(word), is_ascii_letter)

\* the substitutions dict, in its insertion order
substitutions ==
    << <<"y", "u">>, <<"1", "i">>, <<"3", "e">>, <<"4", "a">>, <<"5", "s">>,
       <<"7", "t">>, <<"@", "a">>, <<"$", "s">>, <<"!", "i">> >>

\* the loop `for digit, letter in substitutions.items()`, from the k-th entry on
RECURSIVE substitute_from(_, _)
substitute_from(normalized, k) ==
    IF k > Len(substitutions) THEN normalized
    ELSE substitute_from(
             str_replace(normalized, substitutions[k][1], substitutions[k][2]),
             k + 1)

\* seeded fault: the table applied to the word as written, not lower-cased
_detect_variations_raw(word) ==
    _normalize_word(substitute_from(word, 1)) \in curse_words

_detect_variations(word) ==
    _normalize_word(substitute_from(str_lower(word), 1)) \in curse_words

\* seeded fault: the variations are consulted under LENIENT only
_should_filter_word_at_lenient(word, level) ==
    IF word = <<>> \/ word = None THEN FALSE
    ELSE IF _normalize_word(word) \in curse_words THEN TRUE
    ELSE IF level \notin {STRICT, MODERATE} THEN _detect_variations(word)
    ELSE FALSE

\* _should_filter_word as it decides when self.filter_level is level
_should_filter_word_at(word, level) ==
    IF word = <<>> \/ word = None THEN FALSE
    ELSE IF _normalize_word(word) \in curse_words THEN TRUE
    ELSE IF level \in {STRICT, MODERATE} THEN _detect_variations(word)
    ELSE FALSE

_should_filter_word(word) == _should_filter_word_at(word, filter_level)

\* seeded fault: the normalized spelling is listed, not the word as written
detect_inappropriate_words_normalized(message) ==
    IF message = None \/ message = <<>> THEN <<>>
    ELSE LET hits == SelectSeq(findall_words(message), _should_filter_word)
         IN [i \in 1..Len(hits) |-> _normalize_word(hits[i])]

detect_inappropriate_words(message) ==
    IF message = None \/ message = <<>> THEN <<>>
    ELSE SelectSeq(findall_words(message), _should_filter_word)

is_message_clean(message) == Len(detect_inappropriate_words(message)) = 0

get_word_severity(word) ==
    IF _should_filter_word(word) THEN "offensive" ELSE "clean"

(***************************************************************************)
(* Rewriting.                                                              *)
(***************************************************************************)
\* seeded fault: preserve_length ignored
replace_word_fixed(word, preserve_length) ==
    IF _should_filter_word(word) THEN str_repeat(replacement_char, 3) ELSE word

\* seeded fault: one replacement character too many
replace_word_longer(word, preserve_length) ==
    IF _should_filter_word(word)
    THEN IF preserve_length
         THEN str_repeat(replacement_char, Len(word) + 1)
         ELSE str_repeat(replacement_char, 3)
    ELSE word

\* the closure replace_word of filter_message: what a matched word becomes
replace_word(word, preserve_length) ==
    IF _should_filter_word(word)
    THEN IF preserve_length
         THEN str_repeat(replacement_char, Len(word))
         ELSE str_repeat(replacement_char, 3)
    ELSE word

\* re.sub(r'\b\w+\b', replace_word, s) from position i on: the text, and the
\* words replace_word counted in filtered_count, in order
RECURSIVE sub_from(_, _, _)
sub_from(s, i, preserve_length) ==
    IF i > Len(s) THEN [text |-> <<>>, replaced |-> <<>>]
    ELSE IF is_word_char(s[i])
         THEN LET word == SubSeq(s, i, word_end(s, i) - 1)
                  rest == sub_from(s, word_end(s, i), preserve_length)
              IN [text |-> replace_word(word, preserve_length) \o rest.text,
                  replaced |-> (IF _should_filter_word(word) THEN <<word>> ELSE <<>>)
                                   \o rest.replaced]
         ELSE LET rest == sub_from(s, i + 1, preserve_length)
              IN [text |-> <<s[i]>> \o rest.text, replaced |-> rest.replaced]

\* seeded fault: the message is counted before it is validated
filter_message_counts_first(message, preserve_length) ==
    IF message = None \/ message = <<>> \/ Len(message) > max_message_length
    THEN [raised |-> "ValueError", value |-> None, replaced |-> <<>>,
          total_messages_processed |-> total_messages_processed + 1,
          total_words_filtered |-> total_words_filtered]
    ELSE LET sub == sub_from(message, 1, preserve_length)
         IN [raised |-> "", value |-> sub.text, replaced |-> sub.replaced,
             total_messages_processed |-> total_messages_processed + 1,
             total_words_filtered |-> total_words_filtered + Len(sub.replaced)]

\* seeded fault: a message of exactly max_message_length is refused
filter_message_cap_exclusive(message, preserve_length) ==
    IF message = None \/ message = <<>> \/ Len(message) >= max_message_length
    THEN [raised |-> "ValueError", value |-> None, replaced |-> <<>>,
          total_messages_processed |-> total_messages_processed,
          total_words_filtered |-> total_words_filtered]
    ELSE LET sub == sub_from(message, 1, preserve_length)
         IN [raised |-> "", value |-> sub.text, replaced |-> sub.replaced,
             total_messages_processed |-> total_messages_processed + 1,
             total_words_filtered |-> total_words_filtered + Len(sub.replaced)]

\* filter_message: the exception it ends with ("" for none), what it returns,
\* the words it replaced and the counters as it leaves them
filter_message(message, preserve_length) ==
    IF message = None \/ message = <<>>
    THEN [raised |-> "ValueError", value |-> None, replaced |-> <<>>,
          total_messages_processed |-> total_messages_processed,
          total_words_filtered |-> total_words_filtered]
    ELSE IF Len(message) > max_message_length
    THEN [raised |-> "ValueError", value |-> None, replaced |-> <<>>,
          total_messages_processed |-> total_messages_processed,
          total_words_filtered |-> total_words_filtered]
    ELSE IF Len(message) < min_message_length
    THEN [raised |-> "ValueError", value |-> None, replaced |-> <<>>,
          total_messages_processed |-> total_messages_processed,
          total_words_filtered |-> total_words_filtered]
    ELSE LET sub == sub_from(message, 1, preserve_length)
         IN [raised |-> "", value |-> sub.text, replaced |-> sub.replaced,
             total_messages_processed |-> total_messages_processed + 1,
             total_words_filtered |-> total_words_filtered + Len(sub.replaced)]

\* seeded fault: a string filter_message refuses becomes "" like a non-string
RECURSIVE batch_from_lenient(_, _)
batch_from_lenient(messages, k) ==
    IF k > Len(messages)
    THEN [raised |-> "", value |-> <<>>, replaced |-> <<>>, filtered |-> 0]
    ELSE LET rest == batch_from_lenient(messages, k + 1)
             r == filter_message(messages[k], TRUE)
         IN IF messages[k] = None \/ r.raised # ""
            THEN [rest EXCEPT !.value = << <<>> >> \o @]
            ELSE [raised |-> rest.raised,
                  value |-> <<r.value>> \o rest.value,
                  replaced |-> r.replaced \o rest.replaced,
                  filtered |-> 1 + rest.filtered]

\* the list comprehension of batch_filter_messages from the k-th entry on: the
\* exception that ends it ("" for none), the entries built, the words the
\* filter_message calls that returned replaced, and how many returned
RECURSIVE batch_from(_, _)
batch_from(messages, k) ==
    IF k > Len(messages)
    THEN [raised |-> "", value |-> <<>>, replaced |-> <<>>, filtered |-> 0]
    ELSE IF messages[k] = None
    THEN LET rest == batch_from(messages, k + 1)
         IN [rest EXCEPT !.value = << <<>> >> \o @]
    ELSE LET r == filter_message(messages[k], TRUE)
         IN IF r.raised # ""
            THEN [raised |-> r.raised, value |-> <<>>, replaced |-> <<>>,
                  filtered |-> 0]
            ELSE LET rest == batch_from(messages, k + 1)
                 IN [raised |-> rest.raised,
                     value |-> <<r.value>> \o rest.value,
                     replaced |-> r.replaced \o rest.replaced,
                     filtered |-> 1 + rest.filtered]

\* batch_filter_messages: the exception it ends with ("" for none), what it
\* returns, how many of its filter_message calls returned, the words they
\* replaced and the counters as it leaves them
batch_filter_messages(messages) ==
    IF messages.kind # "list"
    THEN [raised |-> "ValueError", value |-> None, filtered |-> 0,
          replaced |-> <<>>,
          total_messages_processed |-> total_messages_processed,
          total_words_filtered |-> total_words_filtered]
    ELSE LET b == batch_from(messages.items, 1)
         IN [raised |-> b.raised,
             value |-> IF b.raised = "" THEN b.value ELSE None,
             filtered |-> b.filtered,
             replaced |-> b.replaced,
             total_messages_processed |-> total_messages_processed + b.filtered,
             total_words_filtered |-> total_words_filtered + Len(b.replaced)]

\* the dict get_filter_report returns for a non-empty message
report(message, filtered_message, inappropriate_words, total_words) ==
    [original_message |-> message,
     filtered_message |-> filtered_message,
     inappropriate_words |-> inappropriate_words,
     total_words |-> total_words,
     filtered_words_count |-> Len(inappropriate_words),
     is_clean |-> (Len(inappropriate_words) = 0),
     filter_level |-> level_value(filter_level),
     message_length |-> Len(message)]

\* and for an empty or absent one
vacuous_report ==
    [original_message |-> <<>>,
     filtered_message |-> <<>>,
     inappropriate_words |-> <<>>,
     total_words |-> 0,
     filtered_words_count |-> 0,
     is_clean |-> TRUE,
     filter_level |-> level_value(filter_level)]

\* get_filter_report: the exception it ends with ("" for none), what it returns,
\* whether its filter_message call returned, the words that call replaced and
\* the counters as it leaves them.  self.filter_level.value raises
\* AttributeError when self.filter_level is no FilterLevel; on the non-empty
\* path that is after filter_message has run.
get_filter_report(message) ==
    IF message = None \/ message = <<>>
    THEN [raised |-> IF is_filter_level(filter_level) THEN "" ELSE "AttributeError",
          value |-> IF is_filter_level(filter_level) THEN vacuous_report ELSE None,
          filtered |-> FALSE, replaced |-> <<>>,
          total_messages_processed |-> total_messages_processed,
          total_words_filtered |-> total_words_filtered]
    ELSE LET inappropriate_words == detect_inappropriate_words(message)
             filtered == filter_message(message, TRUE)
             total_words == Len(findall_words(message))
         IN [raised |-> IF filtered.raised # "" THEN filtered.raised
                        ELSE IF is_filter_level(filter_level) THEN ""
                        ELSE "AttributeError",
             value |-> IF filtered.raised = "" /\ is_filter_level(filter_level)
                       THEN report(message, filtered.value, inappropriate_words,
                                   total_words)
                       ELSE None,
             filtered |-> (filtered.raised = ""),
             replaced |-> filtered.replaced,
             total_messages_processed |-> filtered.total_messages_processed,
             total_words_filtered |-> filtered.total_words_filtered]

(***************************************************************************)
(* Which tokens of a message are offending, stated on positions rather     *)
(* than by a scan: a token starts where a word character follows a         *)
(* non-word character (or nothing) and runs to the last word character     *)
(* before the next non-word character.                                     *)
(***************************************************************************)
TokenStarts(m) ==
    {i \in 1..Len(m) : is_word_char(m[i]) /\ (i = 1 \/ ~is_word_char(m[i - 1]))}

TokenLast(m, i) ==
    CHOOSE j \in i..Len(m) :
        /\ \A k \in i..j : is_word_char(m[k])
        /\ (j = Len(m) \/ ~is_word_char(m[j + 1]))

TokenAt(m, i) == SubSeq(m, i, TokenLast(m, i))

OffendingStarts(m) == {i \in TokenStarts(m) : _should_filter_word(TokenAt(m, i))}

(***************************************************************************)
(* Inputs.                                                                 *)
(***************************************************************************)
strings_upto(chars, n) == UNION {[1..k -> chars] : k \in 0..n}

\* a letter, an upper-case letter, a digit of the substitution table and a
\* separator of the substitution table
MessageChars == {"a", "Y", "4", "@"}

\* every message up to the cap, one-character messages one past it, and None
Messages ==
    strings_upto(MessageChars, max_message_length)
        \cup {[i \in 1..(max_message_length + 1) |-> c] : c \in MessageChars}
        \cup {None}

Words == strings_upto(MessageChars, MaxWordLen)

\* arguments of add_curse_word and remove_curse_word: None, "", "A ", "u"
WordArgs == {None, <<>>, <<"A", " ">>, <<"u">>}

\* arguments of set_replacement_char: "", "*", "a", "**"
CharArgs == {<<>>, <<"*">>, <<"a">>, <<"*", "*">>}

list_of(items) == [kind |-> "list", items |-> items]
dict_of(items) == [kind |-> "dict", items |-> items]
entry(key, is_list, list) == [key |-> key, is_list |-> is_list, list |-> list]

\* entries of a batch: a non-string, "", "a", "4@Y" and a string over the cap
BatchEntries ==
    {None, <<>>, <<"a">>, <<"4", "@", "Y">>,
     [i \in 1..(max_message_length + 1) |-> "a"]}

\* arguments of batch_filter_messages: the lists of up to MaxBatch entries,
\* and a value that is no list
Batches ==
    {list_of(items) : items \in UNION {[1..k -> BatchEntries] : k \in 0..MaxBatch}}
        \cup {[kind |-> "scalar", items |-> <<>>]}

\* arguments for a filter level: the enum's members and a plain string
LevelArgs == FilterLevel \cup {"invalid"}

\* the documents construction is tried on
Documents ==
    { [kind |-> "missing", items |-> <<>>],
      [kind |-> "invalid_json", items |-> <<>>],
      [kind |-> "scalar", items |-> <<>>],
      list_of(<<>>),
      \* ["A ", "", "u", None]
      list_of(<< <<"A", " ">>, <<>>, <<"u">>, None >>),
      \* {"words": []}
      dict_of(<< entry(preferred_keys[1], TRUE, <<>>) >>),
      \* {"words": "x", "curse": ["a"]}
      dict_of(<< entry(preferred_keys[1], FALSE, <<>>),
                 entry(preferred_keys[2], TRUE, << <<"a">> >>) >>),
      \* {"U": 1}
      dict_of(<< entry(<<"U">>, FALSE, <<>>) >>) }

(***************************************************************************)
(* The state machine: construction, then any sequence of calls.            *)
(***************************************************************************)
snapshot ==
    [curse_words |-> curse_words,
     filter_level |-> filter_level,
     replacement_char |-> replacement_char,
     total_messages_processed |-> total_messages_processed,
     total_words_filtered |-> total_words_filtered]

\* __init__(curse_words_file, filter_level) with the file drawn from documents
InitOf(documents) ==
    \E doc \in documents, level \in LevelArgs :
        /\ filter_level = level
        /\ curse_words = init_curse_words(doc)
        /\ replacement_char = <<"*">>
        /\ total_messages_processed = 0
        /\ total_words_filtered = 0
        /\ call = [op |-> "__init__", arg |-> doc, preserve_length |-> FALSE]
        /\ result = [raised |-> "", value |-> None]
        /\ old = [curse_words |-> {},
                  filter_level |-> level,
                  replacement_char |-> <<"*">>,
                  total_messages_processed |-> 0,
                  total_words_filtered |-> 0]
        /\ filter_calls_ok = 0
        /\ tokens_replaced = 0
        /\ never_loaded = (_load_curse_words(doc).raised # "")
        /\ requests = <<>>

Init == InitOf(Documents)

\* add_curse_word(word) with word drawn from words
AddCurseWordOf(words) ==
    \E word \in words :
        LET r == add_curse_word(word)
        IN /\ call.op = "idle"
           /\ UNCHANGED requests
           /\ call' = [op |-> "add_curse_word", arg |-> word, preserve_length |-> FALSE]
           /\ old' = snapshot
           /\ result' = [raised |-> r.raised, value |-> r.value]
           /\ curse_words' = r.curse_words
           /\ never_loaded' = (never_loaded /\ r.curse_words = curse_words)
           /\ UNCHANGED <<filter_level, replacement_char, total_messages_processed,
                          total_words_filtered, filter_calls_ok, tokens_replaced>>

AddCurseWord == AddCurseWordOf(WordArgs)

\* remove_curse_word(word) with word drawn from words
RemoveCurseWordOf(words) ==
    \E word \in words :
        LET r == remove_curse_word(word)
        IN /\ call.op = "idle"
           /\ UNCHANGED requests
           /\ call' = [op |-> "remove_curse_word", arg |-> word,
                       preserve_length |-> FALSE]
           /\ old' = snapshot
           /\ result' = [raised |-> r.raised, value |-> r.value]
           /\ curse_words' = r.curse_words
           /\ UNCHANGED <<filter_level, replacement_char, total_messages_processed,
                          total_words_filtered, history>>

RemoveCurseWord == RemoveCurseWordOf(WordArgs)

SetReplacementChar ==
    \E char \in CharArgs :
        /\ call.op = "idle"
        /\ UNCHANGED requests
        /\ call' = [op |-> "set_replacement_char", arg |-> char,
                    preserve_length |-> FALSE]
        /\ old' = snapshot
        /\ result' = [raised |-> IF Len(char) # 1 THEN "ValueError" ELSE "",
                      value |-> None]
        /\ replacement_char' = IF Len(char) # 1 THEN replacement_char ELSE char
        /\ UNCHANGED <<curse_words, filter_level, total_messages_processed,
                       total_words_filtered, history>>

SetFilterLevel ==
    \E level \in LevelArgs :
        /\ call.op = "idle"
        /\ UNCHANGED requests
        /\ call' = [op |-> "set_filter_level", arg |-> level,
                    preserve_length |-> FALSE]
        /\ old' = snapshot
        /\ result' = [raised |-> IF is_filter_level(level) THEN "" ELSE "ValueError",
                      value |-> None]
        /\ filter_level' = IF is_filter_level(level) THEN level ELSE filter_level
        /\ UNCHANGED <<curse_words, replacement_char, total_messages_processed,
                       total_words_filtered, history>>

\* detect_inappropriate_words(message) with message drawn from messages
DetectInappropriateWordsOf(messages) ==
    \E message \in messages :
        /\ call.op = "idle"
        /\ UNCHANGED requests
        /\ call' = [op |-> "detect_inappropriate_words", arg |-> message,
                    preserve_length |-> FALSE]
        /\ old' = snapshot
        /\ result' = [raised |-> "", value |-> detect_inappropriate_words(message)]
        /\ UNCHANGED <<engine, history>>

DetectInappropriateWords == DetectInappropriateWordsOf(Messages)

IsMessageClean ==
    \E message \in Messages :
        /\ call.op = "idle"
        /\ UNCHANGED requests
        /\ call' = [op |-> "is_message_clean", arg |-> message,
                    preserve_length |-> FALSE]
        /\ old' = snapshot
        /\ result' = [raised |-> "", value |-> is_message_clean(message)]
        /\ UNCHANGED <<engine, history>>

GetWordSeverity ==
    \E word \in Words :
        /\ call.op = "idle"
        /\ UNCHANGED requests
        /\ call' = [op |-> "get_word_severity", arg |-> word,
                    preserve_length |-> FALSE]
        /\ old' = snapshot
        /\ result' = [raised |-> "", value |-> get_word_severity(word)]
        /\ UNCHANGED <<engine, history>>

\* filter_message(message, preserve_length) with message drawn from messages
FilterMessageOf(messages) ==
    \E message \in messages, preserve_length \in BOOLEAN :
        LET r == filter_message(message, preserve_length)
        IN /\ call.op = "idle"
           /\ UNCHANGED requests
           /\ total_messages_processed < MaxCount
           /\ call' = [op |-> "filter_message", arg |-> message,
                       preserve_length |-> preserve_length]
           /\ old' = snapshot
           /\ result' = [raised |-> r.raised, value |-> r.value]
           /\ total_messages_processed' = r.total_messages_processed
           /\ total_words_filtered' = r.total_words_filtered
           /\ filter_calls_ok' = filter_calls_ok + (IF r.raised = "" THEN 1 ELSE 0)
           /\ tokens_replaced' =
                  tokens_replaced
                      + (IF r.raised = "" THEN Cardinality(OffendingStarts(message))
                         ELSE 0)
           /\ UNCHANGED <<curse_words, filter_level, replacement_char, never_loaded>>

FilterMessage == FilterMessageOf(Messages)

GetFilterReport ==
    \E message \in Messages :
        LET r == get_filter_report(message)
        IN /\ call.op = "idle"
           /\ UNCHANGED requests
           /\ total_messages_processed < MaxCount
           /\ call' = [op |-> "get_filter_report", arg |-> message,
                       preserve_length |-> TRUE]
           /\ old' = snapshot
           /\ result' = [raised |-> r.raised, value |-> r.value]
           /\ total_messages_processed' = r.total_messages_processed
           /\ total_words_filtered' = r.total_words_filtered
           /\ filter_calls_ok' = filter_calls_ok + (IF r.filtered THEN 1 ELSE 0)
           /\ tokens_replaced' =
                  tokens_replaced
                      + (IF r.filtered THEN Cardinality(OffendingStarts(message))
                         ELSE 0)
           /\ UNCHANGED <<curse_words, filter_level, replacement_char, never_loaded>>

\* the entries of a batch that filter_message is called on and returns for:
\* the strings before the first string it refuses
FilteredEntries(messages) ==
    {i \in DOMAIN messages :
        /\ messages[i] # None
        /\ \A j \in 1..i :
               messages[j] = None
                   \/ (messages[j] # <<>> /\ Len(messages[j]) <= max_message_length)}

RECURSIVE OffendingIn(_, _)
OffendingIn(messages, entries) ==
    IF entries = {} THEN 0
    ELSE LET i == CHOOSE e \in entries : TRUE
         IN Cardinality(OffendingStarts(messages[i]))
                + OffendingIn(messages, entries \ {i})

BatchFilterMessages ==
    \E messages \in Batches :
        LET r == batch_filter_messages(messages)
            entries == FilteredEntries(messages.items)
        IN /\ call.op = "idle"
           /\ UNCHANGED requests
           /\ total_messages_processed + Len(messages.items) <= MaxCount
           /\ call' = [op |-> "batch_filter_messages", arg |-> messages,
                       preserve_length |-> TRUE]
           /\ old' = snapshot
           /\ result' = [raised |-> r.raised, value |-> r.value]
           /\ total_messages_processed' = r.total_messages_processed
           /\ total_words_filtered' = r.total_words_filtered
           /\ filter_calls_ok' = filter_calls_ok + Cardinality(entries)
           /\ tokens_replaced' = tokens_replaced + OffendingIn(messages.items, entries)
           /\ UNCHANGED <<curse_words, filter_level, replacement_char, never_loaded>>

GetStatistics ==
    /\ call.op = "idle"
    /\ UNCHANGED requests
    /\ call' = [op |-> "get_statistics", arg |-> None, preserve_length |-> FALSE]
    /\ old' = snapshot
    /\ result' =
           IF is_filter_level(filter_level)
           THEN [raised |-> "",
                 value |-> [total_messages_processed |-> total_messages_processed,
                            total_words_filtered |-> total_words_filtered,
                            curse_words_count |-> Cardinality(curse_words),
                            filter_level |-> level_value(filter_level),
                            replacement_character |-> replacement_char]]
           ELSE [raised |-> "AttributeError", value |-> None]
    /\ UNCHANGED <<engine, history>>

ResetStatistics ==
    /\ call.op = "idle"
    /\ UNCHANGED requests
    /\ call' = [op |-> "reset_statistics", arg |-> None, preserve_length |-> FALSE]
    /\ old' = snapshot
    /\ result' = [raised |-> "", value |-> None]
    /\ total_messages_processed' = 0
    /\ total_words_filtered' = 0
    /\ filter_calls_ok' = 0
    /\ tokens_replaced' = 0
    /\ UNCHANGED <<curse_words, filter_level, replacement_char, never_loaded>>

\* the caller takes the result; the engine is idle until the next call
Return ==
    /\ call.op # "idle"
    /\ UNCHANGED requests
    /\ call' = [op |-> "idle", arg |-> None, preserve_length |-> FALSE]
    /\ result' = [raised |-> "", value |-> None]
    /\ old' = snapshot
    /\ UNCHANGED <<engine, history>>

Next ==
    \/ Return
    \/ AddCurseWord
    \/ RemoveCurseWord
    \/ SetReplacementChar
    \/ SetFilterLevel
    \/ DetectInappropriateWords
    \/ IsMessageClean
    \/ GetWordSeverity
    \/ FilterMessage
    \/ GetFilterReport
    \/ BatchFilterMessages
    \/ GetStatistics
    \/ ResetStatistics

Spec == Init /\ [][Next]_vars

(***************************************************************************)
(* The same engine on words that lower().strip() leaves with characters    *)
(* other than letters, and on messages that spell them.                    *)
(***************************************************************************)
\* ["ya"] and ["Y4 ", " "]
DocumentsRaw ==
    { list_of(<< <<"y", "a">> >>),
      list_of(<< <<"Y", "4", " ">>, <<" ">> >>) }

\* arguments of add_curse_word and remove_curse_word: " ", "Y4", "ya"
WordArgsRaw == {<<" ">>, <<"Y", "4">>, <<"y", "a">>}

MessageCharsRaw == {"y", "Y", "4"}

MessagesRaw == strings_upto(MessageCharsRaw, MaxWordLen) \cup {None}

InitRaw == InitOf(DocumentsRaw)

AddCurseWordRaw == AddCurseWordOf(WordArgsRaw)

RemoveCurseWordRaw == RemoveCurseWordOf(WordArgsRaw)

DetectInappropriateWordsRaw == DetectInappropriateWordsOf(MessagesRaw)

FilterMessageRaw == FilterMessageOf(MessagesRaw)

NextRaw ==
    \/ Return
    \/ AddCurseWordRaw
    \/ RemoveCurseWordRaw
    \/ SetReplacementChar
    \/ SetFilterLevel
    \/ DetectInappropriateWordsRaw
    \/ FilterMessageRaw
    \/ ResetStatistics

SpecRaw == InitRaw /\ [][NextRaw]_vars

(***************************************************************************)
(* The request layer: one engine, built at start-up with the default       *)
(* level, shared by the handlers of a threaded server.  A handler's        *)
(* engine calls are steps of their own; nothing orders the steps of one    *)
(* handler against those of another.                                       *)
(***************************************************************************)
MaxHandlers == 2
Handlers == 1..MaxHandlers

level_map ==
    [name \in {"strict", "moderate", "lenient"} |->
        CASE name = "strict" -> STRICT
          [] name = "moderate" -> MODERATE
          [] name = "lenient" -> LENIENT]

\* the JSON bodies posted to /api/filter
FilterRequests ==
    { [message |-> <<"a", "@", "4">>, filter_level |-> "moderate",
       replacement_char |-> <<"*">>, preserve_length |-> TRUE],
      [message |-> <<"a", "@", "4">>, filter_level |-> "lenient",
       replacement_char |-> <<"#">>, preserve_length |-> FALSE],
      [message |-> <<"4">>, filter_level |-> "bogus",
       replacement_char |-> <<"*", "*">>, preserve_length |-> TRUE],
      [message |-> <<>>, filter_level |-> "strict",
       replacement_char |-> <<"*">>, preserve_length |-> TRUE] }

\* the words posted to and deleted from /api/curse_words
WordRequests == {<<"a">>, <<>>}

\* curse_words.json as initialize_filter finds it: ["a"], or unreadable
DocumentsServer ==
    { list_of(<< <<"a">> >>), [kind |-> "invalid_json", items |-> <<>>] }

\* a handler between requests
waiting ==
    [pc |-> "waiting", endpoint |-> "", data |-> None,
     inappropriate_words |-> <<>>, replaced |-> <<>>, applied |-> None,
     response |-> None]

\* initialize_filter(), then the server accepts requests
InitServer ==
    \E doc \in DocumentsServer :
        /\ filter_level = MODERATE
        /\ curse_words = init_curse_words(doc)
        /\ replacement_char = <<"*">>
        /\ total_messages_processed = 0
        /\ total_words_filtered = 0
        /\ call = [op |-> "__init__", arg |-> doc, preserve_length |-> FALSE]
        /\ result = [raised |-> "", value |-> None]
        /\ old = [curse_words |-> {},
                  filter_level |-> MODERATE,
                  replacement_char |-> <<"*">>,
                  total_messages_processed |-> 0,
                  total_words_filtered |-> 0]
        /\ filter_calls_ok = 0
        /\ tokens_replaced = 0
        /\ never_loaded = (_load_curse_words(doc).raised # "")
        /\ requests = [h \in Handlers |-> waiting]

\* filter requests received and not yet past their filter_message call
in_flight ==
    Cardinality({h \in Handlers :
        requests[h].pc \in {"set_filter_level", "set_replacement_char",
                            "get_filter_report", "filter_message"}})

\* filter_message_api up to its first engine call: the body is read
FilterMessageApi ==
    \E h \in Handlers, data \in FilterRequests :
        /\ requests[h].pc = "waiting"
        /\ total_messages_processed + in_flight < MaxCount
        /\ requests' = [requests EXCEPT ![h] =
               [waiting EXCEPT !.pc = "set_filter_level",
                               !.endpoint = "/api/filter",
                               !.data = data]]
        /\ UNCHANGED <<engine, call, result, old, history>>

\* if filter_level in level_map: filter_instance.set_filter_level(...)
ApiSetFilterLevel ==
    \E h \in Handlers :
        /\ requests[h].pc = "set_filter_level"
        /\ filter_level' =
               IF requests[h].data.filter_level \in DOMAIN level_map
               THEN level_map[requests[h].data.filter_level]
               ELSE filter_level
        /\ requests' = [requests EXCEPT ![h].pc = "set_replacement_char"]
        /\ UNCHANGED <<curse_words, replacement_char, total_messages_processed,
                       total_words_filtered, call, result, old, history>>

\* if replacement_char and len(replacement_char) == 1:
\*     filter_instance.set_replacement_char(replacement_char)
ApiSetReplacementChar ==
    \E h \in Handlers :
        /\ requests[h].pc = "set_replacement_char"
        /\ replacement_char' =
               IF Len(requests[h].data.replacement_char) = 1
               THEN requests[h].data.replacement_char
               ELSE replacement_char
        /\ requests' = [requests EXCEPT ![h].pc = "get_filter_report"]
        /\ UNCHANGED <<curse_words, filter_level, total_messages_processed,
                       total_words_filtered, call, result, old, history>>

\* the body filter_message_api answers with
ok_response(body, data) ==
    [status |-> 200,
     body |-> body,
     filter_settings |-> [level |-> data.filter_level,
                          replacement_char |-> data.replacement_char,
                          preserve_length |-> data.preserve_length]]

\* get_filter_report up to its filter_message call: the vacuous report for an
\* empty message, and otherwise detect_inappropriate_words(message)
ApiDetect ==
    \E h \in Handlers :
        LET data == requests[h].data
        IN /\ requests[h].pc = "get_filter_report"
           /\ requests' = [requests EXCEPT ![h] =
                  IF data.message = <<>>
                  THEN [@ EXCEPT !.pc = "responded",
                                 !.response = ok_response(vacuous_report, data)]
                  ELSE [@ EXCEPT !.pc = "filter_message",
                                 !.inappropriate_words =
                                     detect_inappropriate_words(data.message)]]
           /\ UNCHANGED <<engine, call, result, old, history>>

\* the rest of get_filter_report, filter_message(message) and the dict, and
\* of filter_message_api: filter_settings added, or the exception answered
\* with status 500
ApiFilter ==
    \E h \in Handlers :
        LET data == requests[h].data
            filtered == filter_message(data.message, TRUE)
        IN /\ requests[h].pc = "filter_message"
           /\ total_messages_processed' = filtered.total_messages_processed
           /\ total_words_filtered' = filtered.total_words_filtered
           /\ filter_calls_ok' =
                  filter_calls_ok + (IF filtered.raised = "" THEN 1 ELSE 0)
           /\ tokens_replaced' =
                  tokens_replaced
                      + (IF filtered.raised = ""
                         THEN Cardinality(OffendingStarts(data.message))
                         ELSE 0)
           /\ requests' = [requests EXCEPT ![h] =
                  IF filtered.raised # ""
                  THEN [@ EXCEPT !.pc = "responded",
                                 !.response = [status |-> 500,
                                               body |-> filtered.raised,
                                               filter_settings |-> None]]
                  ELSE [@ EXCEPT
                           !.pc = "responded",
                           !.replaced = filtered.replaced,
                           !.applied = [filter_level |-> filter_level,
                                        replacement_char |-> replacement_char,
                                        preserve_length |-> TRUE],
                           !.response =
                               ok_response(
                                   report(data.message, filtered.value,
                                          requests[h].inappropriate_words,
                                          Len(findall_words(data.message))),
                                   data)]]
           /\ UNCHANGED <<curse_words, filter_level, replacement_char, call,
                          result, old, never_loaded>>

\* POST /api/curse_words: add_curse_word(word), a ValueError answered with
\* status 500
ApiAddCurseWord ==
    \E h \in Handlers, word \in WordRequests :
        LET r == add_curse_word(word)
        IN /\ requests[h].pc = "waiting"
           /\ curse_words' = r.curse_words
           /\ never_loaded' = (never_loaded /\ r.curse_words = curse_words)
           /\ requests' = [requests EXCEPT ![h] =
                  [waiting EXCEPT
                      !.pc = "responded",
                      !.endpoint = "/api/curse_words",
                      !.data = word,
                      !.response =
                          IF r.raised # ""
                          THEN [status |-> 500, body |-> r.raised,
                                filter_settings |-> None]
                          ELSE [status |-> 200, body |-> r.value,
                                filter_settings |-> None]]]
           /\ UNCHANGED <<filter_level, replacement_char, total_messages_processed,
                          total_words_filtered, call, result, old,
                          filter_calls_ok, tokens_replaced>>

\* DELETE /api/curse_words/<word>: remove_curse_word(word)
ApiRemoveCurseWord ==
    \E h \in Handlers, word \in WordRequests \ {<<>>} :
        LET r == remove_curse_word(word)
        IN /\ requests[h].pc = "waiting"
           /\ curse_words' = r.curse_words
           /\ requests' = [requests EXCEPT ![h] =
                  [waiting EXCEPT
                      !.pc = "responded",
                      !.endpoint = "/api/curse_words/<word>",
                      !.data = word,
                      !.response = [status |-> 200, body |-> r.value,
                                    filter_settings |-> None]]]
           /\ UNCHANGED <<filter_level, replacement_char, total_messages_processed,
                          total_words_filtered, call, result, old, history>>

\* the response is sent; the handler takes the next request
ApiReturn ==
    \E h \in Handlers :
        /\ requests[h].pc = "responded"
        /\ requests' = [requests EXCEPT ![h] = waiting]
        /\ UNCHANGED <<engine, call, result, old, history>>

NextServer ==
    \/ FilterMessageApi
    \/ ApiSetFilterLevel
    \/ ApiSetReplacementChar
    \/ ApiDetect
    \/ ApiFilter
    \/ ApiAddCurseWord
    \/ ApiRemoveCurseWord
    \/ ApiReturn

SpecServer == InitServer /\ [][NextServer]_vars

(***************************************************************************)
(* Properties.  Each is stated about the call that just returned (call,    *)
(* result), the engine as that call left it and the engine as it found it  *)
(* (old).                                                                  *)
(***************************************************************************)
TypeOK ==
    /\ total_messages_processed \in 0..MaxCount
    /\ total_words_filtered \in Nat
    /\ filter_calls_ok \in Nat
    /\ tokens_replaced \in Nat
    /\ never_loaded \in BOOLEAN
    /\ call.op \in {"idle", "__init__", "add_curse_word", "remove_curse_word",
                    "set_replacement_char", "set_filter_level",
                    "detect_inappropriate_words", "is_message_clean",
                    "get_word_severity", "filter_message", "get_filter_report",
                    "batch_filter_messages", "get_statistics", "reset_statistics"}

Returned(op) == call.op = op
Succeeded == result.raised = ""
EngineUnchanged == snapshot = old
ConfigurationUnchanged ==
    /\ filter_level = old.filter_level
    /\ replacement_char = old.replacement_char
CountersUnchanged ==
    /\ total_messages_processed = old.total_messages_processed
    /\ total_words_filtered = old.total_words_filtered

\* the look-alike table of the specification: y,1,3,4,5,7,@,$,! stand for
\* u,i,e,a,s,t,a,s,i
LookAlike ==
    [c \in {"y", "1", "3", "4", "5", "7", "@", "$", "!"} |->
        CASE c = "y" -> "u" [] c = "1" -> "i" [] c = "3" -> "e"
          [] c = "4" -> "a" [] c = "5" -> "s" [] c = "7" -> "t"
          [] c = "@" -> "a" [] c = "$" -> "s" [] c = "!" -> "i"]

\* substitute: every occurrence of a table character replaced, nothing else
Substitute(token) ==
    [i \in 1..Len(token) |->
        IF token[i] \in DOMAIN LookAlike THEN LookAlike[token[i]] ELSE token[i]]

\* normalize: lower-cased, every character that is no ASCII letter dropped
IsLowerLetter(c) == \E i \in DOMAIN ascii_lower : ascii_lower[i] = c
Normalize(token) == SelectSeq(str_lower(token), IsLowerLetter)

\* C1 as stated: a token is reported offending iff normalize(token) is in the
\* block-list, or the level is STRICT or MODERATE and
\* normalize(substitute(token)) is in it; and the decision changes no engine
\* state.
C1_MatchDecisionAsStated ==
    (Returned("get_word_severity") /\ call.arg # <<>>) =>
        /\ (result.value = "offensive") <=>
               \/ Normalize(call.arg) \in curse_words
               \/ /\ filter_level \in {STRICT, MODERATE}
                  /\ Normalize(Substitute(call.arg)) \in curse_words
        /\ EngineUnchanged

\* C1 amended: a non-empty token is reported offending iff normalize(token) is
\* in the block-list, or the level is STRICT or MODERATE and
\* normalize(substitute(lowercase(token))) is in it: the token is lower-cased
\* before the table is applied, so an upper-case Y is replaced by u as well.
\* The decision changes no engine state.
C1_MatchDecision ==
    (Returned("get_word_severity") /\ call.arg # <<>>) =>
        /\ (result.value = "offensive") <=>
               \/ Normalize(call.arg) \in curse_words
               \/ /\ filter_level \in {STRICT, MODERATE}
                  /\ Normalize(Substitute(str_lower(call.arg))) \in curse_words
        /\ EngineUnchanged

\* the decision was taken on "Y" against a block-list with "u" and without "y"
C1_Witness ==
    /\ Returned("get_word_severity")
    /\ call.arg = <<"Y">>
    /\ filter_level \in {STRICT, MODERATE}
    /\ <<"u">> \in curse_words
    /\ <<"y">> \notin curse_words
    /\ result.value = "offensive"

\* the token a word character at position k belongs to starts here
TokenStartOf(m, k) ==
    CHOOSE i \in TokenStarts(m) : i <= k /\ \A j \in i..k : is_word_char(m[j])

\* what position k of the message contributes to the filtered text
Piece(m, k, preserve_length) ==
    IF ~is_word_char(m[k]) \/ TokenStartOf(m, k) \notin OffendingStarts(m)
    THEN <<m[k]>>
    ELSE IF preserve_length THEN replacement_char
    ELSE IF k = TokenStartOf(m, k)
         THEN replacement_char \o replacement_char \o replacement_char
         ELSE <<>>

RECURSIVE Concat(_)
Concat(pieces) ==
    IF pieces = <<>> THEN <<>> ELSE Head(pieces) \o Concat(Tail(pieces))

ExpectedFiltered(m, preserve_length) ==
    Concat([k \in 1..Len(m) |-> Piece(m, k, preserve_length)])

\* C2: filter_message returns the message with each offending token replaced
\* by the replacement character, len(token) times when preserve_length and 3
\* times otherwise, every other token and every separator copied through in
\* order; with preserve_length the length is kept, and a message without an
\* offending token comes back unchanged.
C2_FilterRewrites ==
    (Returned("filter_message") /\ Succeeded) =>
        /\ result.value = ExpectedFiltered(call.arg, call.preserve_length)
        /\ call.preserve_length => Len(result.value) = Len(call.arg)
        /\ OffendingStarts(call.arg) = {} => result.value = call.arg

\* a message of one offending and one clean token was filtered to three
\* replacement characters per offending token
C2_Witness ==
    /\ Returned("filter_message")
    /\ Succeeded
    /\ ~call.preserve_length
    /\ Cardinality(TokenStarts(call.arg)) = 2
    /\ Cardinality(OffendingStarts(call.arg)) = 1
    /\ Len(result.value) = Len(call.arg) + 2

\* C3: messagesProcessed is the number of filter_message calls that returned
\* since construction or the last reset and wordsFiltered the number of
\* offending tokens they replaced; only reset_statistics decreases a counter,
\* and it zeroes both without touching the block-list or the configuration.
C3_Counters ==
    /\ total_messages_processed = filter_calls_ok
    /\ total_words_filtered = tokens_replaced
    /\ ~Returned("reset_statistics") =>
           /\ total_messages_processed >= old.total_messages_processed
           /\ total_words_filtered >= old.total_words_filtered
    /\ Returned("reset_statistics") =>
           /\ total_messages_processed = 0
           /\ total_words_filtered = 0
           /\ curse_words = old.curse_words
           /\ ConfigurationUnchanged

\* the second message was filtered, three offending tokens in all
C3_Witness ==
    /\ Returned("filter_message")
    /\ Succeeded
    /\ total_messages_processed = 2
    /\ total_words_filtered = 3

\* the documents construction cannot load: unreachable, not valid JSON, neither
\* list nor dict, or with an empty word set
CannotLoad(doc) ==
    \/ doc.kind \in {"missing", "invalid_json", "scalar"}
    \/ doc = list_of(<<>>)
    \/ doc = dict_of(<< entry(preferred_keys[1], TRUE, <<>>) >>)

\* C4: construction that fails to load leaves the block-list empty, never a
\* default list, and until a word is added every message is reported clean
\* and every valid message is returned unchanged by filter_message.
C4_EmptyOnFailure ==
    /\ (Returned("__init__") /\ CannotLoad(call.arg)) => never_loaded
    /\ never_loaded =>
           /\ curse_words = {}
           /\ Returned("is_message_clean") => result.value = TRUE
           /\ Returned("detect_inappropriate_words") => result.value = <<>>
           /\ (Returned("filter_message") /\ Succeeded) => result.value = call.arg

\* after a failed load, "a" (blocked by other documents) was filtered
C4_Witness ==
    /\ never_loaded
    /\ Returned("filter_message")
    /\ Succeeded
    /\ call.arg = <<"a">>
    /\ result.value = <<"a">>

\* C5: filter_message raises ValueError exactly when the message is absent,
\* empty or longer than max_message_length, and then leaves the counters, the
\* block-list and the configuration as they were.
C5_Validation ==
    Returned("filter_message") =>
        /\ result.raised \in {"", "ValueError"}
        /\ (result.raised = "ValueError") <=>
               \/ call.arg = None
               \/ call.arg = <<>>
               \/ Len(call.arg) > max_message_length
        /\ result.raised = "ValueError" => EngineUnchanged

\* a message of exactly max_message_length characters was accepted
C5_Witness ==
    /\ Returned("filter_message")
    /\ call.arg # None
    /\ Len(call.arg) = max_message_length
    /\ Succeeded

\* C6 as stated: for either preserve_length, filtering the filtered text
\* again succeeds and yields the same text.
C6_IdempotentAsStated ==
    (Returned("filter_message") /\ Succeeded) =>
        /\ filter_message(result.value, call.preserve_length).raised = ""
        /\ filter_message(result.value, call.preserve_length).value = result.value

\* C6 amended: filtering the filtered text again yields the same text whenever
\* the filtered text is no longer than max_message_length, which it always is
\* with preserve_length true; with preserve_length false each replaced token
\* becomes 3 characters, the text can outgrow the cap, and the second call then
\* raises ValueError.
C6_Idempotent ==
    (Returned("filter_message") /\ Succeeded) =>
        /\ call.preserve_length => Len(result.value) <= max_message_length
        /\ Len(result.value) <= max_message_length =>
               /\ filter_message(result.value, call.preserve_length).raised = ""
               /\ filter_message(result.value, call.preserve_length).value
                      = result.value
        /\ Len(result.value) > max_message_length =>
               filter_message(result.value, call.preserve_length).raised
                   = "ValueError"

\* a message of the full length with an offending token was filtered, keeping
\* its length
C6_Witness ==
    /\ Returned("filter_message")
    /\ Succeeded
    /\ call.preserve_length
    /\ Len(call.arg) = max_message_length
    /\ OffendingStarts(call.arg) # {}
    /\ result.value # call.arg

\* a block-list of letter-only words
LetterOnly(words) ==
    \A w \in words : w # <<>> /\ \A i \in 1..Len(w) : IsLowerLetter(w[i])

\* C7: whatever replacement character the setter accepted, and for every
\* block-list of letter-only words, the text filter_message returns holds no
\* offending token: detection on it is empty and it is clean.
C7_FilteredIsClean ==
    (Returned("filter_message") /\ Succeeded /\ LetterOnly(curse_words)) =>
        /\ detect_inappropriate_words(result.value) = <<>>
        /\ is_message_clean(result.value)

\* the tokens that start at the positions in starts, in message order
RECURSIVE TokensAt(_, _)
TokensAt(m, starts) ==
    IF starts = {} THEN <<>>
    ELSE LET first == CHOOSE i \in starts : \A j \in starts : i <= j
         IN <<TokenAt(m, first)>> \o TokensAt(m, starts \ {first})

\* C8: in a report on a valid non-empty message, inappropriate_words is the
\* sequence of the tokens replaced in filtered_message, in message order, with
\* duplicates and in their original spelling; filtered_words_count is its
\* length and the number of replaced spans; is_clean iff it is empty.
C8_ReportConsistent ==
    (Returned("get_filter_report") /\ Succeeded /\ call.arg \notin {None, <<>>}) =>
        /\ result.value.filtered_message = ExpectedFiltered(call.arg, TRUE)
        /\ result.value.inappropriate_words
               = TokensAt(call.arg, OffendingStarts(call.arg))
        /\ result.value.filtered_words_count
               = Len(result.value.inappropriate_words)
        /\ result.value.filtered_words_count
               = Cardinality(OffendingStarts(call.arg))
        /\ result.value.is_clean <=> result.value.inappropriate_words = <<>>

\* a report listed the same offending token twice, in its upper-case spelling
C8_Witness ==
    /\ Returned("get_filter_report")
    /\ Succeeded
    /\ call.arg = <<"Y", "@", "Y">>
    /\ result.value.inappropriate_words = << <<"Y">>, <<"Y">> >>
    /\ result.value.filtered_message = <<"*", "@", "*">>

\* C9: get_filter_report on a valid non-empty message adds one to
\* messagesProcessed and the report's filtered_words_count to wordsFiltered; on
\* absent or empty input it returns the vacuous report without failing and
\* without changing a counter.
C9_ReportCounts ==
    Returned("get_filter_report") =>
        /\ (call.arg \notin {None, <<>>} /\ Len(call.arg) <= max_message_length) =>
               /\ Succeeded
               /\ total_messages_processed = old.total_messages_processed + 1
               /\ total_words_filtered
                      = old.total_words_filtered + result.value.filtered_words_count
        /\ call.arg \in {None, <<>>} =>
               /\ Succeeded
               /\ result.value.is_clean
               /\ result.value.inappropriate_words = <<>>
               /\ CountersUnchanged

\* C9 holds of every engine whose filter level is a FilterLevel: it fails
\* only where C10 does.
C9_ReportCountsAtValidLevel ==
    is_filter_level(old.filter_level) => C9_ReportCounts

\* C10: after construction with any filter_level argument and after any setter
\* calls the level is STRICT, MODERATE or LENIENT and the replacement is one
\* character; a setter given an invalid value raises ValueError and leaves the
\* configuration as it was.
C10_ConfigurationValid ==
    /\ filter_level \in FilterLevel
    /\ Len(replacement_char) = 1
    /\ (Returned("set_filter_level") /\ call.arg \notin FilterLevel) =>
           (result.raised = "ValueError" /\ ConfigurationUnchanged)
    /\ (Returned("set_replacement_char") /\ Len(call.arg) # 1) =>
           (result.raised = "ValueError" /\ ConfigurationUnchanged)

\* C10 for the setters alone: they keep a valid configuration valid and
\* refuse an invalid value.
C10_SettersValidate ==
    /\ is_filter_level(old.filter_level) => filter_level \in FilterLevel
    /\ Len(replacement_char) = 1
    /\ (Returned("set_filter_level") /\ call.arg \notin FilterLevel) =>
           (result.raised = "ValueError" /\ ConfigurationUnchanged)
    /\ (Returned("set_replacement_char") /\ Len(call.arg) # 1) =>
           (result.raised = "ValueError" /\ ConfigurationUnchanged)

\* C11: in every state reached by loading any accepted document and by any
\* add_curse_word and remove_curse_word calls, every member of the block-list
\* is a normalized word: lower-case letters and nothing else.
C11_BlockListNormalized ==
    \A word \in curse_words : \A i \in DOMAIN word : IsLowerLetter(word[i])

\* what the loader and add_curse_word do establish: a member is its own
\* lower-cased, stripped form
C11_BlockListLowerStripped ==
    \A word \in curse_words : word = str_strip(str_lower(word))

\* C12: a token whose normalized form is the empty string (digits and
\* underscores only) is never listed by detect_inappropriate_words and never
\* replaced by filter_message, whatever words were loaded or added before.
C12_EmptyNormalFormNeverOffending ==
    /\ Returned("detect_inappropriate_words") =>
           \A k \in DOMAIN result.value : Normalize(result.value[k]) # <<>>
    /\ (Returned("filter_message") /\ Succeeded /\ call.preserve_length) =>
           \A i \in TokenStarts(call.arg) :
               Normalize(TokenAt(call.arg, i)) = <<>> =>
                   SubSeq(result.value, i, TokenLast(call.arg, i))
                       = TokenAt(call.arg, i)

\* C12 holds under LENIENT of every block-list without the empty string: the
\* only direct match of such a token is the empty string that add_curse_word
\* and the loader store for a word of blanks.
C12_UnlessEmptyWordListed ==
    (<<>> \notin curse_words /\ filter_level \notin {STRICT, MODERATE}) =>
        C12_EmptyNormalFormNeverOffending

\* the argument of add_curse_word and remove_curse_word, trimmed and
\* lower-cased
TrimmedLower(word) == str_strip(str_lower(word))

\* C13: add_curse_word(w) on a non-empty string returns true iff the trimmed,
\* lower-cased w was not listed, and afterwards it is (one more member on
\* true, the same block-list on false); on an empty or absent argument it
\* raises ValueError and leaves the block-list alone.  remove_curse_word(w)
\* returns true iff the trimmed, lower-cased w was listed, and afterwards it
\* is not (one member fewer on true); on an empty or absent argument it
\* returns false without failing.  Removing a word just added restores the
\* block-list, and neither call changes a counter or the configuration.
C13_AddRemove ==
    /\ Returned("add_curse_word") =>
           /\ ConfigurationUnchanged
           /\ CountersUnchanged
           /\ call.arg \in {None, <<>>} =>
                  (result.raised = "ValueError" /\ curse_words = old.curse_words)
           /\ call.arg \notin {None, <<>>} =>
                  /\ Succeeded
                  /\ result.value <=> TrimmedLower(call.arg) \notin old.curse_words
                  /\ TrimmedLower(call.arg) \in curse_words
                  /\ result.value =>
                         /\ Cardinality(curse_words)
                                = Cardinality(old.curse_words) + 1
                         /\ remove_curse_word(call.arg).value = TRUE
                         /\ remove_curse_word(call.arg).curse_words
                                = old.curse_words
                  /\ ~result.value => curse_words = old.curse_words
    /\ Returned("remove_curse_word") =>
           /\ ConfigurationUnchanged
           /\ CountersUnchanged
           /\ Succeeded
           /\ call.arg \in {None, <<>>} =>
                  (result.value = FALSE /\ curse_words = old.curse_words)
           /\ call.arg \notin {None, <<>>} =>
                  /\ result.value <=> TrimmedLower(call.arg) \in old.curse_words
                  /\ TrimmedLower(call.arg) \notin curse_words
                  /\ result.value =>
                         Cardinality(curse_words)
                             = Cardinality(old.curse_words) - 1
                  /\ ~result.value => curse_words = old.curse_words

\* "A " was added to a block-list that held "u" and not "a"
C13_Witness ==
    /\ Returned("add_curse_word")
    /\ call.arg = <<"A", " ">>
    /\ result.value = TRUE
    /\ old.curse_words = {<<"u">>}
    /\ curse_words = {<<"a">>, <<"u">>}

\* the token starts of m that are offending when the level is level
FlaggedStarts(m, level) ==
    {i \in TokenStarts(m) : _should_filter_word_at(TokenAt(m, i), level)}

\* C14: for the same block-list and message, the tokens
\* detect_inappropriate_words lists under LENIENT are among those it lists
\* under MODERATE and among those it lists under STRICT.
C14_StrictnessMonotone ==
    (Returned("detect_inappropriate_words") /\ call.arg \notin {None, <<>>}) =>
        /\ result.value = TokensAt(call.arg, FlaggedStarts(call.arg, filter_level))
        /\ FlaggedStarts(call.arg, LENIENT) \subseteq FlaggedStarts(call.arg, MODERATE)
        /\ FlaggedStarts(call.arg, LENIENT) \subseteq FlaggedStarts(call.arg, STRICT)

\* "a@4" was scanned with "a" listed: LENIENT flags the first token only,
\* MODERATE and STRICT the digit as well
C14_Witness ==
    /\ Returned("detect_inappropriate_words")
    /\ call.arg = <<"a", "@", "4">>
    /\ filter_level = LENIENT
    /\ result.value = << <<"a">> >>
    /\ FlaggedStarts(call.arg, LENIENT) = {1}
    /\ FlaggedStarts(call.arg, MODERATE) = {1, 3}
    /\ FlaggedStarts(call.arg, STRICT) = {1, 3}

\* a message that is one token and nothing else
IsToken(m) == m # None /\ m # <<>> /\ \A i \in DOMAIN m : is_word_char(m[i])

\* what filter_message makes of a message that is one offending token
Censored(m, preserve_length) ==
    [i \in 1..(IF preserve_length THEN Len(m) ELSE 3) |-> replacement_char[1]]

\* C15: for every word of the block-list and every level, a token that is an
\* upper/lower-case variant of the word is listed by
\* detect_inappropriate_words and replaced by filter_message, as the
\* all-lower-case spelling is.
C15_CaseInsensitive ==
    /\ (Returned("detect_inappropriate_words") /\ IsToken(call.arg)
            /\ str_lower(call.arg) \in curse_words) =>
           /\ result.value = <<call.arg>>
           /\ detect_inappropriate_words(str_lower(call.arg))
                  = <<str_lower(call.arg)>>
    /\ (Returned("filter_message") /\ Succeeded /\ IsToken(call.arg)
            /\ str_lower(call.arg) \in curse_words) =>
           result.value = Censored(call.arg, call.preserve_length)

\* what holds of the casing: a token is listed iff its lower-case spelling
\* is, and a variant of a letter-only word of the block-list is listed and
\* replaced
C15_CaseInvariant ==
    /\ (Returned("detect_inappropriate_words") /\ IsToken(call.arg)) =>
           /\ result.value = <<call.arg>>
                  <=> detect_inappropriate_words(str_lower(call.arg))
                          = <<str_lower(call.arg)>>
           /\ (str_lower(call.arg) \in curse_words
                   /\ LetterOnly({str_lower(call.arg)})) =>
                  result.value = <<call.arg>>
    /\ (Returned("filter_message") /\ Succeeded /\ IsToken(call.arg)
            /\ str_lower(call.arg) \in curse_words
            /\ LetterOnly({str_lower(call.arg)})) =>
           result.value = Censored(call.arg, call.preserve_length)

\* token is word with some of its letters replaced by a look-alike of the
\* substitution table
IsLookAlikeOf(token, word) ==
    /\ token # None
    /\ Len(token) = Len(word)
    /\ \A i \in DOMAIN word :
           \/ token[i] = word[i]
           \/ token[i] \in DOMAIN LookAlike /\ LookAlike[token[i]] = word[i]

\* C18: under STRICT or MODERATE, for every (letter-only) word of the
\* block-list, words with the letter y included, a token made from the word by
\* replacing some of its letters with their look-alikes (y for u, 1 or ! for
\* i, 3 for e, 4 or @ for a, 5 or $ for s, 7 for t) is listed by
\* detect_inappropriate_words and censored by filter_message.
C18_LookAlikesFlagged ==
    \A word \in curse_words :
        (LetterOnly({word}) /\ filter_level \in {STRICT, MODERATE}) =>
            /\ (Returned("detect_inappropriate_words")
                    /\ IsLookAlikeOf(call.arg, word)) =>
                   result.value = <<call.arg>>
            /\ (Returned("filter_message") /\ Succeeded
                    /\ IsLookAlikeOf(call.arg, word)) =>
                   result.value = Censored(call.arg, call.preserve_length)

\* C18 for the words and look-alikes it does hold of: a word without the
\* letter y and a token that replaces letters by digits of the table
C18_DigitsOfWordsWithoutY ==
    \A word \in curse_words :
        (LetterOnly({word}) /\ filter_level \in {STRICT, MODERATE}
            /\ \A i \in DOMAIN word : word[i] # "y") =>
            /\ (Returned("detect_inappropriate_words") /\ IsToken(call.arg)
                    /\ IsLookAlikeOf(call.arg, word)) =>
                   result.value = <<call.arg>>
            /\ (Returned("filter_message") /\ Succeeded /\ IsToken(call.arg)
                    /\ IsLookAlikeOf(call.arg, word)) =>
                   result.value = Censored(call.arg, call.preserve_length)

\* a string filter_message accepts
ValidMessage(m) == m # None /\ m # <<>> /\ Len(m) <= max_message_length

\* the i-th entry of the list batch_filter_messages returns
BatchEntry(m) == IF m = None THEN <<>> ELSE ExpectedFiltered(m, TRUE)

\* C16 as stated: for every list of messages batch_filter_messages returns a
\* list of the same length whose i-th entry is the filtered form of the i-th
\* message, the empty string for a non-string entry.
C16_BatchAsStated ==
    (Returned("batch_filter_messages") /\ call.arg.kind = "list") =>
        /\ Succeeded
        /\ Len(result.value) = Len(call.arg.items)
        /\ \A i \in DOMAIN call.arg.items :
               result.value[i] = BatchEntry(call.arg.items[i])

\* C16: for every list whose string entries are all strings filter_message
\* accepts, batch_filter_messages returns a list of the same length whose
\* i-th entry is the filtered form (length preserved) of the i-th message,
\* the empty string for a non-string entry; a list with an empty or over-long
\* string makes the call raise ValueError and return no list, the entries
\* before that string having been filtered and counted; an argument that is
\* no list raises ValueError and changes nothing.
C16_Batch ==
    Returned("batch_filter_messages") =>
        /\ ConfigurationUnchanged
        /\ curse_words = old.curse_words
        /\ call.arg.kind # "list" =>
               (result.raised = "ValueError" /\ CountersUnchanged)
        /\ call.arg.kind = "list" =>
               LET messages == call.arg.items
               IN /\ total_messages_processed
                         = old.total_messages_processed
                               + Cardinality(FilteredEntries(messages))
                  /\ (\A i \in DOMAIN messages :
                          messages[i] = None \/ ValidMessage(messages[i])) =>
                         /\ Succeeded
                         /\ Len(result.value) = Len(messages)
                         /\ \A i \in DOMAIN messages :
                                result.value[i] = BatchEntry(messages[i])
                  /\ (\E i \in DOMAIN messages :
                          messages[i] # None /\ ~ValidMessage(messages[i])) =>
                         (result.raised = "ValueError" /\ result.value = None)

\* [None, "4@Y"] with "a" and "u" listed came back as ["", "*@*"]
C16_Witness ==
    /\ Returned("batch_filter_messages")
    /\ call.arg = list_of(<<None, <<"4", "@", "Y">> >>)
    /\ Succeeded
    /\ result.value = << <<>>, <<"*", "@", "*">> >>
    /\ total_messages_processed = old.total_messages_processed + 1

\* a handler that has answered a filter request on a non-empty message with
\* a report
Reported(h) ==
    /\ requests[h].pc = "responded"
    /\ requests[h].endpoint = "/api/filter"
    /\ requests[h].response.status = 200
    /\ requests[h].data.message # <<>>

\* C17: with requests handled concurrently on the one engine, every report
\* the filter endpoint returns is computed against a single level,
\* replacement character and block-list: its inappropriate_words are the
\* tokens replaced in its filtered_message, under every interleaving.
C17_ReportsConsistent ==
    \A h \in DOMAIN requests :
        Reported(h) =>
            requests[h].response.body.inappropriate_words = requests[h].replaced

RECURSIVE TotalLen(_)
TotalLen(words) ==
    IF words = <<>> THEN 0 ELSE Len(Head(words)) + TotalLen(Tail(words))

\* C19: the filter endpoint applies the settings it echoes in
\* filter_settings: filtered_message is computed with the echoed level,
\* replacement_char and preserve_length (three replacement characters per
\* offending token when preserve_length is false), and a request with an
\* unrecognized level or a replacement string that is not one character is
\* answered with an error.
C19_EchoedSettingsApplied ==
    \A h \in DOMAIN requests :
        (requests[h].pc = "responded" /\ requests[h].endpoint = "/api/filter") =>
            LET data == requests[h].data
                response == requests[h].response
            IN /\ (data.filter_level \notin DOMAIN level_map
                       \/ Len(data.replacement_char) # 1) =>
                      response.status # 200
               /\ Reported(h) =>
                      /\ response.filter_settings.level \in DOMAIN level_map
                      /\ requests[h].applied
                             = [filter_level |->
                                    level_map[response.filter_settings.level],
                                replacement_char |->
                                    response.filter_settings.replacement_char,
                                preserve_length |->
                                    response.filter_settings.preserve_length]
                      /\ ~response.filter_settings.preserve_length =>
                             Len(response.body.filtered_message)
                                 = Len(data.message)
                                       - TotalLen(requests[h].replaced)
                                       + 3 * Len(requests[h].replaced)

\* what the endpoint does apply of a request whose level and replacement
\* character are valid, when no other request is in progress: the level
\* and the character, never preserve_length
C19_LevelAndCharApplied ==
    \A h \in DOMAIN requests :
        (/\ Reported(h)
         /\ \A g \in DOMAIN requests : g # h => requests[g].pc = "waiting"
         /\ requests[h].data.filter_level \in DOMAIN level_map
         /\ Len(requests[h].data.replacement_char) = 1) =>
            /\ requests[h].applied.preserve_length = TRUE
            /\ Len(requests[h].response.body.filtered_message)
                   = Len(requests[h].data.message)

====
